---- MODULE Spec2Model ----
(***************************************************************************)
(* A model of the weather MCP client: the WeatherMCPClient router          *)
(* (src/mcp_stdio_client.py) and the entry points that drive it            *)
(* (main, interactive_mode, example_usage).                                *)
(*                                                                         *)
(* Text is a sequence of one-character strings, so that str.lower,         *)
(* str.upper, str.strip, str.split, str.startswith and float() are         *)
(* computed character by character.  A float is the exact decimal          *)
(* <<mantissa, exponent>> (value = mantissa * 10^exponent) with no         *)
(* trailing zero in the mantissa, or one of the tags inf, -inf, nan.       *)
(***************************************************************************)
EXTENDS Integers, Sequences, FiniteSets, TLC

(* ------------------------------------------------------------------ *)
(* Bounds of the model                                                  *)
(* ------------------------------------------------------------------ *)

\* Contexts the AsyncExitStack may hold before connect is no longer tried.
MaxContexts == 4
\* Blanks put before or after a query text.
MaxPad == 1

(* ------------------------------------------------------------------ *)
(* Characters and the str methods the client uses                       *)
(* ------------------------------------------------------------------ *)

LowerCase ==
    << "a", "b", "c", "d", "e", "f", "g", "h", "i", "j", "k", "l", "m",
       "n", "o", "p", "q", "r", "s", "t", "u", "v", "w", "x", "y", "z" >>

UpperCase ==
    << "A", "B", "C", "D", "E", "F", "G", "H", "I", "J", "K", "L", "M",
       "N", "O", "P", "Q", "R", "S", "T", "U", "V", "W", "X", "Y", "Z" >>

Digits == << "0", "1", "2", "3", "4", "5", "6", "7", "8", "9" >>

Range(s) == { s[i] : i \in DOMAIN s }

IndexOf(c, s) == CHOOSE i \in DOMAIN s : s[i] = c

UpperLetters == Range(UpperCase)

LowerLetters == Range(LowerCase)

DigitCharacters == Range(Digits)

IsUpper(c) == c \in UpperLetters

IsLower(c) == c \in LowerLetters

IsDigit(c) == c \in DigitCharacters

DigitValues == [ c \in DigitCharacters |-> IndexOf(c, Digits) - 1 ]

DigitValue(c) == DigitValues[c]

\* The lower case of every capital, and the capital of every small letter.
LowerOf == [ c \in UpperLetters |-> LowerCase[IndexOf(c, UpperCase)] ]

UpperOf == [ c \in LowerLetters |-> UpperCase[IndexOf(c, LowerCase)] ]

\* The only white space of the modelled alphabet is the blank.
isspace(c) == c = " "

CharLower(c) == IF IsUpper(c) THEN LowerOf[c] ELSE c

CharUpper(c) == IF IsLower(c) THEN UpperOf[c] ELSE c

lower(s) == [ i \in DOMAIN s |-> CharLower(s[i]) ]

upper(s) == [ i \in DOMAIN s |-> CharUpper(s[i]) ]

\* str.isalpha: at least one character and every character a letter.
isalpha(s) == Len(s) > 0 /\ \A i \in DOMAIN s : IsUpper(s[i]) \/ IsLower(s[i])

RECURSIVE lstrip(_)
lstrip(s) ==
    IF s # << >> /\ isspace(Head(s)) THEN lstrip(Tail(s)) ELSE s

RECURSIVE rstrip(_)
rstrip(s) ==
    IF s # << >> /\ isspace(s[Len(s)])
    THEN rstrip(SubSeq(s, 1, Len(s) - 1))
    ELSE s

strip(s) == rstrip(lstrip(s))

startswith(s, p) == Len(s) >= Len(p) /\ SubSeq(s, 1, Len(p)) = p

\* The first white-space-free word of s (s has no leading white space).
RECURSIVE FirstWord(_)
FirstWord(s) ==
    IF s = << >> \/ isspace(Head(s))
    THEN << >>
    ELSE << Head(s) >> \o FirstWord(Tail(s))

\* str.split(): the words between runs of white space.
RECURSIVE split(_)
split(s) ==
    LET t == lstrip(s)
    IN  IF t = << >>
        THEN << >>
        ELSE LET w == FirstWord(t)
             IN  << w >> \o split(SubSeq(t, Len(w) + 1, Len(t)))

(* ------------------------------------------------------------------ *)
(* float(): the decimal literals Python accepts                         *)
(* ------------------------------------------------------------------ *)

\* A float is a pair; what is not a number is a tuple of one tag.
ValueError == << "ValueError" >>

Inf == << "inf" >>

NegInf == << "-inf" >>

NaN == << "nan" >>

\* m * 10^e with the trailing zeros of m moved into e.
RECURSIVE Normalize(_, _)
Normalize(m, e) ==
    IF m = 0 THEN << 0, 0 >>
    ELSE IF m % 10 = 0 THEN Normalize(m \div 10, e + 1)
    ELSE << m, e >>

IsSign(c) == c \in { "+", "-" }

IsExpMark(c) == c \in { "e", "E" }

\* One pass over the characters after the sign.  st is the place in the
\* literal: "start", "int", "dot" (a point with no digit before it),
\* "point" (a point after digits), "frac", "mark" (after e), "esign",
\* "exp", and "int_", "frac_", "exp_" after an underscore, which must be
\* followed by a digit.  m is the digits read so far, k the number of them
\* after the point, es and x the exponent's sign and digits.
RECURSIVE ScanFloat(_, _, _, _, _, _)
ScanFloat(s, st, m, k, es, x) ==
    IF s = << >>
    THEN IF st \in { "int", "point", "frac", "exp" }
         THEN Normalize(m, es * x - k)
         ELSE ValueError
    ELSE LET c == Head(s)
             r == Tail(s)
         IN  CASE IsDigit(c) /\ st \in { "start", "int", "int_" } ->
                    ScanFloat(r, "int", m * 10 + DigitValue(c), k, es, x)
               [] IsDigit(c) /\ st \in { "dot", "point", "frac", "frac_" } ->
                    ScanFloat(r, "frac", m * 10 + DigitValue(c), k + 1, es, x)
               [] IsDigit(c) /\ st \in { "mark", "esign", "exp", "exp_" } ->
                    ScanFloat(r, "exp", m, k, es, x * 10 + DigitValue(c))
               [] c = "_" /\ st = "int" -> ScanFloat(r, "int_", m, k, es, x)
               [] c = "_" /\ st = "frac" -> ScanFloat(r, "frac_", m, k, es, x)
               [] c = "_" /\ st = "exp" -> ScanFloat(r, "exp_", m, k, es, x)
               [] c = "." /\ st = "start" -> ScanFloat(r, "dot", m, k, es, x)
               [] c = "." /\ st = "int" -> ScanFloat(r, "point", m, k, es, x)
               [] IsExpMark(c) /\ st \in { "int", "point", "frac" } ->
                    ScanFloat(r, "mark", m, k, es, x)
               [] IsSign(c) /\ st = "mark" ->
                    ScanFloat(r, "esign", m, k, IF c = "-" THEN -1 ELSE 1, x)
               [] OTHER -> ValueError

Negate(v) ==
    CASE v = ValueError -> ValueError
      [] v = Inf -> NegInf
      [] v = NaN -> NaN
      [] OTHER -> << -v[1], v[2] >>

Unsigned(s) ==
    CASE lower(s) \in { << "i", "n", "f" >>,
                        << "i", "n", "f", "i", "n", "i", "t", "y" >> } -> Inf
      [] lower(s) = << "n", "a", "n" >> -> NaN
      [] OTHER -> ScanFloat(s, "start", 0, 0, 1, 0)

\* float(tok) for a token without white space: its value, or ValueError.
float(tok) ==
    IF tok # << >> /\ IsSign(Head(tok))
    THEN IF Head(tok) = "-" THEN Negate(Unsigned(Tail(tok))) ELSE Unsigned(Tail(tok))
    ELSE Unsigned(tok)

(* ------------------------------------------------------------------ *)
(* The remote service, as the client sees it                            *)
(* ------------------------------------------------------------------ *)

\* What an awaited library call may raise: a fault (an Exception), or an
\* interruption of the process (KeyboardInterrupt, or the CancelledError
\* asyncio.run delivers on SIGINT), neither of which is an Exception.
Fault == "Exception"

Interrupts == { "KeyboardInterrupt", "CancelledError" }

\* tools_response.tools, as the list of the names: what list_tools returns.
ToolLists ==
    { << >>,
      << "get_alerts" >>,
      << "get_forecast" >>,
      << "get_alerts", "get_forecast" >>,
      << "echo" >> }

\* An answer to list_tools: the names, or the exception raised instead.
Listed(tools) == [ exc |-> "none", tools |-> tools ]

ListingRaises(exc) == [ exc |-> exc, tools |-> << >> ]

\* An answer to call_tool: an object whose content is a list, an object
\* whose content is one value, an object without content, or the exception
\* raised instead.
Replies ==
    { [ exc |-> "none", shape |-> "list", items |-> << "sunny", "windy" >> ],
      [ exc |-> "none", shape |-> "scalar", items |-> << "sunny" >> ],
      [ exc |-> "none", shape |-> "bare", items |-> << >> ] }

ReplyRaises(exc) == [ exc |-> exc, shape |-> "bare", items |-> << >> ]

\* No query_weather was the last operation.
NoQuestion == [ location |-> << >>, listing |-> ListingRaises("none"),
                reply |-> ReplyRaises("none") ]

\* "\n".join([str(item) for item in items])
RECURSIVE JoinLines(_)
JoinLines(items) ==
    IF items = << >> THEN << >>
    ELSE IF Len(items) = 1 THEN << items[1] >>
    ELSE << items[1], "\n" >> \o JoinLines(Tail(items))

\* The text of a call_tool result.
ResultText(reply) ==
    CASE reply.shape = "list" -> JoinLines(reply.items)
      [] reply.shape = "scalar" -> << reply.items[1] >>
      [] OTHER -> << "str(result)" >>

(* ------------------------------------------------------------------ *)
(* State                                                                *)
(* ------------------------------------------------------------------ *)

VARIABLES
    session,     \* self.session: NoSession, or the ClientSession object
    stdio,       \* self.stdio, self.write: the transport last launched
    exit_stack,  \* self.exit_stack: the contexts entered and not yet closed
    result,      \* what the last operation of the router did and gave back
    lifecycle,   \* the last connect or cleanup: "new", "connect_ok",
                 \* "connect_failed", "released"
    asked,       \* the location of the last query_weather and the answers
                 \* the service had for it
    prog,        \* the entry point that runs and its place in it
    shell        \* what interactive_chat did with the last line

vars == << session, stdio, exit_stack, result, lifecycle, asked, prog, shell >>

NoSession == 0

\* The object a new context gets: one neither held nor still referred to.
FreshId ==
    CHOOSE n \in 1..(MaxContexts + 2) :
        /\ n \notin { exit_stack[i].id : i \in DOMAIN exit_stack }
        /\ n \notin { session, stdio }
        /\ \A m \in 1..(n - 1) :
               m \in { exit_stack[i].id : i \in DOMAIN exit_stack } \cup { session, stdio }

\* The subprocess transports that are open.
OpenTransports == { i \in DOMAIN exit_stack : exit_stack[i].kind = "stdio" }

\* self.session is a session whose context is still open.
SessionOpen ==
    /\ session # NoSession
    /\ \E i \in DOMAIN exit_stack : exit_stack[i] = [ kind |-> "session", id |-> session ]

\* What the last operation did: the exception it raised to its caller
\* ("none" when it returned), the exception raised inside its try block
\* ("none" when none was), the kind of value it returned, the text that
\* value carries, the call_tool requests it sent, the number of list_tools
\* requests it sent, whether it sent a request on a session that was
\* already closed, and the number of messages it printed itself (progress
\* notices apart).
Outcome(op, raised, value, text, calls, listings) ==
    [ op |-> op, raised |-> raised, inside |-> "none", value |-> value, text |-> text,
      calls |-> calls, listings |-> listings,
      stale |-> (Len(calls) + listings > 0) /\ ~SessionOpen,
      printed |-> 0 ]

NoOutcome == [ op |-> "none", raised |-> "none", inside |-> "none", value |-> "None",
               text |-> << >>, calls |-> << >>, listings |-> 0, stale |-> FALSE,
               printed |-> 0 ]

QueryOps ==
    { "query_weather", "get_weather_forecast", "get_weather_alerts",
      "list_available_tools" }

(* ------------------------------------------------------------------ *)
(* WeatherMCPClient                                                     *)
(* ------------------------------------------------------------------ *)

\* The guard left out: what the properties of the guard are tested against.
NotConnected_Unchecked == FALSE

\* `if not self.session`
NotConnected == session = NoSession

\* The exception classes below Exception that the client meets.
Exceptions == { Fault, "AttributeError", "RuntimeError", "ValueError", "EOFError" }

\* An except clause that takes nothing.
Caught_Nothing(exc) == FALSE

\* `except Exception as e`: the clause takes Exceptions, not interruptions.
Caught(exc) == exc \in Exceptions

\* The answers a request may get.  A request on a closed session cannot
\* be answered: it faults.  excs are the exceptions the caller allows for.
ListingOutcomes(excs) ==
    { ListingRaises(e) : e \in excs }
        \cup (IF SessionOpen THEN { Listed(t) : t \in ToolLists } ELSE { })

ReplyOutcomes(excs) ==
    { ReplyRaises(e) : e \in excs } \cup (IF SessionOpen THEN Replies ELSE { })

\* location_coords, in the order of the dict.
location_coords ==
    << [ key |-> << "b", "e", "i", "j", "i", "n", "g" >>,
         lat |-> << 399042, -4 >>, lon |-> << 1164074, -4 >> ],
       [ key |-> << "n", "e", "w", " ", "y", "o", "r", "k" >>,
         lat |-> << 407128, -4 >>, lon |-> << -74006, -3 >> ],
       [ key |-> << "l", "o", "n", "d", "o", "n" >>,
         lat |-> << 515074, -4 >>, lon |-> << -1278, -4 >> ],
       [ key |-> << "t", "o", "k", "y", "o" >>,
         lat |-> << 356762, -4 >>, lon |-> << 1396503, -4 >> ],
       [ key |-> << "s", "a", "n", " ", "f", "r", "a", "n", "c", "i", "s", "c", "o" >>,
         lat |-> << 377749, -4 >>, lon |-> << -1224194, -4 >> ],
       [ key |-> << "p", "a", "r", "i", "s" >>,
         lat |-> << 488566, -4 >>, lon |-> << 23522, -4 >> ],
       [ key |-> << "s", "y", "d", "n", "e", "y" >>,
         lat |-> << -338688, -4 >>, lon |-> << 1512093, -4 >> ],
       [ key |-> << "l", "o", "s", " ", "a", "n", "g", "e", "l", "e", "s" >>,
         lat |-> << 340522, -4 >>, lon |-> << -1182437, -4 >> ],
       [ key |-> << "c", "h", "i", "c", "a", "g", "o" >>,
         lat |-> << 418781, -4 >>, lon |-> << -876298, -4 >> ],
       [ key |-> << "m", "i", "a", "m", "i" >>,
         lat |-> << 257617, -4 >>, lon |-> << -801918, -4 >> ] >>

\* location_coords.keys()
CityNames == [ i \in DOMAIN location_coords |-> location_coords[i].key ]

\* `location_lower in location_coords`
InTable(k) == \E i \in DOMAIN location_coords : location_coords[i].key = k

\* location_coords[k]
Entry(k) == location_coords[CHOOSE i \in DOMAIN location_coords : location_coords[i].key = k]

\* raise RuntimeError("Not connected to server. ..."), before the try.
Precondition(op) == Outcome(op, "RuntimeError", "None", << >>, << >>, 0)

\* What the except clause of an operation returns, and what it prints.
Handler(op) ==
    CASE op = "connect_to_weather_server" -> [ value |-> "False", printed |-> 1 ]
      [] op = "list_available_tools" -> [ value |-> "empty", printed |-> 1 ]
      [] OTHER -> [ value |-> "error", printed |-> 0 ]

\* An exception raised inside the try block of an operation, after the
\* requests given: the except clause turns it into the operation's failure
\* value, or, not being an Exception, it leaves the operation.
Raised(op, exc, calls, listings) ==
    IF Caught(exc)
    THEN [ Outcome(op, "none", Handler(op).value, << >>, calls, listings)
             EXCEPT !.printed = Handler(op).printed, !.inside = exc ]
    ELSE [ Outcome(op, exc, "None", << >>, calls, listings) EXCEPT !.inside = exc ]

\* await self.session.call_tool(name, args), and the text made of its result.
CallTool(op, name, args, reply, listings) ==
    LET call == [ name |-> name, args |-> args ]
    IN  IF reply.exc # "none"
        THEN Raised(op, reply.exc, << call >>, listings)
        ELSE Outcome(op, "none", "content", ResultText(reply), << call >>, listings)

\* `len(location) == 2 and location.upper().isalpha()`
IsStateCode(location) == Len(location) = 2 /\ isalpha(upper(location))

\* The state code passed on as it was typed.
AlertArgs_AsGiven(state_code) == [ state |-> state_code ]

\* {"state": location.upper()}
AlertArgs(state_code) == [ state |-> upper(state_code) ]

\* {"latitude": lat, "longitude": lon}
ForecastArgs(lat, lon) == [ latitude |-> lat, longitude |-> lon ]

\* The table looked up with the location as it was typed.
LocationLower_AsGiven(location) == location

\* `location_lower = location.lower()`
LocationLower(location) == lower(location)

\* A guidance that shows the location in lower case.
Guidance_Lowered(location, available_tools) ==
    << lower(location), CityNames, available_tools >>

\* The text returned when the location cannot be handled: the location,
\* the city names and the tools are its three interpolated parts.
Guidance(location, available_tools) == << location, CityNames, available_tools >>

\* `if not available_tools: return "No tools available on the server."`
NoTools(available_tools) == available_tools = << >>

\* query_weather(location), with the answers the service gives.
query_weather(location, listing, reply) ==
    LET op == "query_weather"
        available_tools == listing.tools
    IN  IF NotConnected THEN Precondition(op)
        ELSE IF session = NoSession THEN Raised(op, "AttributeError", << >>, 0)
        ELSE IF listing.exc # "none" THEN Raised(op, listing.exc, << >>, 1)
        ELSE IF NoTools(available_tools)
        THEN Outcome(op, "none", "no_tools", << >>, << >>, 1)
        ELSE IF IsStateCode(location) /\ "get_alerts" \in Range(available_tools)
        THEN CallTool(op, "get_alerts", AlertArgs(location), reply, 1)
        ELSE IF InTable(LocationLower(location)) /\ "get_forecast" \in Range(available_tools)
        THEN CallTool(op, "get_forecast",
                      ForecastArgs(Entry(LocationLower(location)).lat,
                                   Entry(LocationLower(location)).lon),
                      reply, 1)
        ELSE Outcome(op, "none", "guidance", Guidance(location, available_tools), << >>, 1)

\* get_weather_forecast(latitude, longitude)
get_weather_forecast(latitude, longitude, reply) ==
    LET op == "get_weather_forecast"
    IN  IF NotConnected THEN Precondition(op)
        ELSE IF session = NoSession THEN Raised(op, "AttributeError", << >>, 0)
        ELSE CallTool(op, "get_forecast", ForecastArgs(latitude, longitude), reply, 0)

\* get_weather_alerts(state_code)
get_weather_alerts(state_code, reply) ==
    LET op == "get_weather_alerts"
    IN  IF NotConnected THEN Precondition(op)
        ELSE IF session = NoSession THEN Raised(op, "AttributeError", << >>, 0)
        ELSE CallTool(op, "get_alerts", AlertArgs(state_code), reply, 0)

\* list_available_tools()
list_available_tools(listing) ==
    LET op == "list_available_tools"
    IN  IF NotConnected THEN Precondition(op)
        ELSE IF session = NoSession THEN Raised(op, "AttributeError", << >>, 0)
        ELSE IF listing.exc # "none" THEN Raised(op, listing.exc, << >>, 1)
        ELSE [ Outcome(op, "none", "tools", listing.tools, << >>, 1) EXCEPT !.printed = 1 ]

\* connect_to_weather_server().  step is the await that raises exc
\* ("none": none does), tools what list_tools then gives.  Entering
\* stdio_client puts the transport on the exit stack, entering
\* ClientSession puts the session there and sets self.session; neither is
\* undone when a later step raises.
connect_to_weather_server(step, exc, tools) ==
    LET op == "connect_to_weather_server"
        n == FreshId
        launched == step # "launch"
        entered == launched /\ step # "session"
        listings == IF step \in { "list_tools", "none" } THEN 1 ELSE 0
        stack1 == IF launched
                  THEN Append(exit_stack, [ kind |-> "stdio", id |-> n ])
                  ELSE exit_stack
        stack2 == IF entered
                  THEN Append(stack1, [ kind |-> "session", id |-> n ])
                  ELSE stack1
        done == IF step = "none"
                THEN [ Outcome(op, "none", "True", tools, << >>, listings) EXCEPT !.printed = 1 ]
                ELSE Raised(op, exc, << >>, listings)
    IN  /\ exit_stack' = stack2
        /\ stdio' = IF launched THEN n ELSE stdio
        /\ session' = IF entered THEN n ELSE session
        /\ result' = [ done EXCEPT !.stale = FALSE ]
        /\ lifecycle' = IF done.value = "True" THEN "connect_ok" ELSE "connect_failed"

ConnectSteps == { "launch", "session", "initialize", "list_tools" }

\* cleanup(): aclose closes every context of the exit stack, last first,
\* and then raises what a context raised while closing, if one did.
\* self.session is left as it is.
cleanup(exc) ==
    /\ exit_stack' = << >>
    /\ UNCHANGED << session, stdio >>
    /\ result' = [ Outcome("cleanup", exc, "None", << >>, << >>, 0) EXCEPT !.stale = FALSE ]
    /\ lifecycle' = IF lifecycle = "connect_ok" THEN "released" ELSE lifecycle

\* A query operation changes nothing of the router.
Query(outcome) ==
    /\ result' = outcome
    /\ UNCHANGED << session, stdio, exit_stack, lifecycle >>

(* ------------------------------------------------------------------ *)
(* Inputs                                                               *)
(* ------------------------------------------------------------------ *)

RECURSIVE Blanks(_)
Blanks(n) == IF n = 0 THEN << >> ELSE << " " >> \o Blanks(n - 1)

\* The first letter of every word in capitals, as a person writes a city.
Title(s) ==
    [ i \in DOMAIN s |-> IF i = 1 \/ s[i - 1] = " " THEN CharUpper(s[i]) ELSE s[i] ]

\* A table key in the three usual spellings, with blanks around it.
Spellings(k) ==
    { Blanks(l) \o v \o Blanks(r) :
        v \in { k, upper(k), Title(k) }, l \in 0..MaxPad, r \in 0..MaxPad }

\* Every text of two characters over a letter in each case, a digit and
\* the blank.
TwoCharacters == { << a, b >> : a \in { "C", "a", "1", " " }, b \in { "C", "a", "1", " " } }

Locations ==
    Spellings(location_coords[1].key) \cup Spellings(location_coords[2].key)
        \cup TwoCharacters
        \cup { << >>, << "x" >>, << "A", "t", "l", "a", "n", "t", "i", "s" >> }

\* The locations a caller of the whole router tries: one of each kind.
SampleLocations ==
    { << "B", "e", "i", "j", "i", "n", "g" >>,
      << " ", "b", "e", "i", "j", "i", "n", "g" >>,
      << "C", "A" >>, << "n", "y" >>, << "c", "1" >>,
      << "A", "t", "l", "a", "n", "t", "i", "s" >> }

Coordinates == { << 407128, -4 >>, << -74006, -3 >>, NaN }

StateCodes == { << "C", "A" >>, << "n", "y" >>, << "T", "e", "x", "a", "s" >> }

(* ------------------------------------------------------------------ *)
(* The router used by a caller, one operation after the other           *)
(* ------------------------------------------------------------------ *)

\* No entry point runs: a caller uses the router directly.
NoProgram == [ entry |-> "caller", pc |-> "calls", at |-> 0, cleanups |-> 0,
               pending |-> "none", left |-> "none" ]

\* No pass of the loop has run.
NoLine == [ line |-> << >>, exc |-> "none", branch |-> "none", messages |-> 0,
            invoked |-> 0, raised |-> "none", after |-> "continue" ]

\* __init__
Init ==
    /\ session = NoSession
    /\ stdio = NoSession
    /\ exit_stack = << >>
    /\ result = NoOutcome
    /\ lifecycle = "new"
    /\ asked = NoQuestion
    /\ prog = NoProgram
    /\ shell = NoLine

Connect ==
    /\ Len(exit_stack) + 2 <= MaxContexts
    /\ \/ \E tools \in ToolLists : connect_to_weather_server("none", "none", tools)
       \/ \E step \in ConnectSteps : connect_to_weather_server(step, Fault, << >>)
    /\ asked' = NoQuestion
    /\ UNCHANGED << prog, shell >>

Disconnect ==
    /\ \E exc \in { "none", Fault } : cleanup(exc)
    /\ asked' = NoQuestion
    /\ UNCHANGED << prog, shell >>

QueryWeather ==
    /\ \E location \in SampleLocations, listing \in ListingOutcomes({ Fault }),
          reply \in ReplyOutcomes({ Fault }) :
            /\ Query(query_weather(location, listing, reply))
            /\ asked' = [ location |-> location, listing |-> listing, reply |-> reply ]
    /\ UNCHANGED << prog, shell >>

GetForecast ==
    /\ \E latitude \in Coordinates, longitude \in Coordinates,
          reply \in ReplyOutcomes({ Fault }) :
            Query(get_weather_forecast(latitude, longitude, reply))
    /\ asked' = NoQuestion
    /\ UNCHANGED << prog, shell >>

GetAlerts ==
    /\ \E state_code \in StateCodes, reply \in ReplyOutcomes({ Fault }) :
            Query(get_weather_alerts(state_code, reply))
    /\ asked' = NoQuestion
    /\ UNCHANGED << prog, shell >>

ListTools ==
    /\ \E listing \in ListingOutcomes({ Fault }) : Query(list_available_tools(listing))
    /\ asked' = NoQuestion
    /\ UNCHANGED << prog, shell >>

Next == Connect \/ Disconnect \/ QueryWeather \/ GetForecast \/ GetAlerts \/ ListTools

Spec == Init /\ [][Next]_vars

(* ------------------------------------------------------------------ *)
(* query_weather on every location, on a router that connects once      *)
(* ------------------------------------------------------------------ *)

ConnectOnce ==
    /\ lifecycle = "new"
    /\ \/ \E tools \in ToolLists : connect_to_weather_server("none", "none", tools)
       \/ \E step \in ConnectSteps : connect_to_weather_server(step, Fault, << >>)
    /\ asked' = NoQuestion
    /\ UNCHANGED << prog, shell >>

Classify ==
    /\ \E location \in Locations, listing \in ListingOutcomes({ Fault }),
          reply \in ReplyOutcomes({ Fault }) :
            /\ Query(query_weather(location, listing, reply))
            /\ asked' = [ location |-> location, listing |-> listing, reply |-> reply ]
    /\ UNCHANGED << prog, shell >>

QueryNext == ConnectOnce \/ Classify

QuerySpec == Init /\ [][QueryNext]_vars

(* ------------------------------------------------------------------ *)
(* interactive_chat: one pass of the loop                               *)
(* ------------------------------------------------------------------ *)

Word_quit == << "q", "u", "i", "t" >>

Word_tools == << "t", "o", "o", "l", "s" >>

Word_help == << "h", "e", "l", "p" >>

Word_forecast == << "f", "o", "r", "e", "c", "a", "s", "t" >>

Word_alerts == << "a", "l", "e", "r", "t", "s" >>

\* The branch of the if/elif chain that takes user_input.
Command(user_input) ==
    CASE lower(user_input) = Word_quit -> "quit"
      [] lower(user_input) = Word_tools -> "tools"
      [] lower(user_input) = Word_help -> "help"
      [] startswith(lower(user_input), Word_forecast \o << " " >>) -> "forecast"
      [] startswith(lower(user_input), Word_alerts \o << " " >>) -> "alerts"
      [] user_input # << >> -> "query"
      [] OTHER -> "empty"

\* A loop that an Exception ends.
LoopAfter_BreakOnError(raised) ==
    CASE raised = "none" -> "continue"
      [] raised = "KeyboardInterrupt" -> "break"
      [] OTHER -> "propagate"

\* What the loop does once its try block has ended with `raised`:
\* KeyboardInterrupt says goodbye and breaks, an Exception is printed and
\* the loop goes on, anything else leaves interactive_chat.
LoopAfter(raised) ==
    CASE raised = "none" -> "continue"
      [] raised = "KeyboardInterrupt" -> "break"
      [] Caught(raised) -> "continue"
      [] OTHER -> "propagate"

\* The message the loop itself prints once its try block has ended with
\* `raised`: the goodbye or the error.
LoopMessages(raised) == IF raised = "none" \/ LoopAfter(raised) = "propagate" THEN 0 ELSE 1

\* What a pass of the loop did: the line read, or the exception input()
\* raised; the branch taken; the messages printed, by the loop and by the
\* operation it awaited (progress notices apart); the operations of the
\* router it awaited; the exception its try block ended with; and whether
\* the loop goes on.

\* A pass that awaits no operation of the router and prints one message.
Local(p, after) ==
    [ outcome |-> result,
      shell |-> [ line |-> p.line, exc |-> p.exc, branch |-> p.branch, messages |-> 1,
                  invoked |-> 0, raised |-> p.exc, after |-> after ] ]

\* A pass that awaited the operation that ended with `outcome`; when it
\* returned, shown says whether the loop prints what it returned.
Dispatched(p, outcome, shown) ==
    [ outcome |-> outcome,
      shell |-> [ line |-> p.line, exc |-> p.exc, branch |-> p.branch,
                  messages |-> outcome.printed + LoopMessages(outcome.raised)
                               + (IF outcome.raised = "none" /\ shown THEN 1 ELSE 0),
                  invoked |-> 1,
                  raised |-> outcome.raised,
                  after |-> LoopAfter(outcome.raised) ] ]

\* What the loop makes of what input() gave, before it awaits anything:
\* the branch taken and the arguments of the call the branch makes.
\* read.exc is what input() raised ("none": it returned read.line).
Parse(read) ==
    LET user_input == strip(read.line)
        parts == split(user_input)
        branch == Command(user_input)
        plan(b, x, y) == [ line |-> read.line, exc |-> read.exc, branch |-> b, a |-> x, b |-> y ]
    IN  IF read.exc # "none" THEN plan("input", << >>, << >>)
        ELSE CASE branch = "forecast" ->
                    IF Len(parts) # 3 THEN plan("forecast_usage", << >>, << >>)
                    ELSE IF float(parts[2]) = ValueError \/ float(parts[3]) = ValueError
                    THEN plan("forecast_invalid", << >>, << >>)
                    ELSE plan(branch, float(parts[2]), float(parts[3]))
               [] branch = "alerts" ->
                    IF Len(parts) # 2 THEN plan("alerts_usage", << >>, << >>)
                    ELSE plan(branch, parts[2], << >>)
               [] branch = "query" -> plan(branch, user_input, << >>)
               [] OTHER -> plan(branch, << >>, << >>)

\* One pass of `while True`: p is what the loop made of the line, listing
\* and reply what the service answers.
interactive_chat(p, listing, reply) ==
    CASE p.branch = "input" ->
            [ Local(p, LoopAfter(p.exc)) EXCEPT !.shell.messages = LoopMessages(p.exc) ]
      [] p.branch = "quit" -> Local(p, "break")
      [] p.branch = "tools" -> Dispatched(p, list_available_tools(listing), FALSE)
      [] p.branch = "forecast" -> Dispatched(p, get_weather_forecast(p.a, p.b, reply), TRUE)
      [] p.branch = "alerts" -> Dispatched(p, get_weather_alerts(p.a, reply), TRUE)
      [] p.branch = "query" -> Dispatched(p, query_weather(p.a, listing, reply), TRUE)
      [] OTHER -> Local(p, "continue")

(* ------------------------------------------------------------------ *)
(* The entry points: main, interactive_mode, example_usage, and a       *)
(* caller that runs interactive_chat on a client it never connected     *)
(* ------------------------------------------------------------------ *)

Entries == { "main", "interactive_mode", "example_usage", "interactive_chat" }

\* The exception that leaves the entry point's try statement when exc is
\* raised in its body: "none" when one of its except clauses takes it.
EntryHandler(entry, exc) ==
    CASE exc = "none" -> "none"
      [] entry = "main" ->
            IF exc = "KeyboardInterrupt" \/ Caught(exc) THEN "none" ELSE exc
      [] entry = "example_usage" -> IF Caught(exc) THEN "none" ELSE exc
      [] OTHER -> exc

\* An entry point without a finally clause.
Leave_WithoutFinally(entry) == "done"

\* The place after the body of the entry point's try statement is left:
\* the finally clause, which interactive_chat alone does not have.
Leave(entry) == IF entry = "interactive_chat" THEN "done" ELSE "finally"

\* The place after `await client.connect_to_weather_server()` ended with
\* outcome.
AfterConnect(entry, outcome) ==
    IF outcome.raised = "none" /\ outcome.value = "True"
    THEN IF entry = "example_usage" THEN "steps" ELSE "chat"
    ELSE Leave(entry)

\* The calls example_usage makes once connected, in their order.
ExampleCalls ==
    << [ op |-> "list_available_tools", a |-> << >>, b |-> << >> ],
       [ op |-> "query_weather", a |-> << "B", "e", "i", "j", "i", "n", "g" >>, b |-> << >> ],
       [ op |-> "query_weather", a |-> << "N", "e", "w", " ", "Y", "o", "r", "k" >>, b |-> << >> ],
       [ op |-> "query_weather", a |-> << "L", "o", "n", "d", "o", "n" >>, b |-> << >> ],
       [ op |-> "query_weather", a |-> << "T", "o", "k", "y", "o" >>, b |-> << >> ],
       [ op |-> "get_weather_alerts", a |-> << "C", "A" >>, b |-> << >> ],
       [ op |-> "get_weather_alerts", a |-> << "N", "Y" >>, b |-> << >> ],
       [ op |-> "get_weather_alerts", a |-> << "F", "L" >>, b |-> << >> ],
       [ op |-> "get_weather_alerts", a |-> << "T", "X" >>, b |-> << >> ],
       [ op |-> "get_weather_forecast", a |-> << 377749, -4 >>, b |-> << -1224194, -4 >> ],
       [ op |-> "get_weather_forecast", a |-> << 407128, -4 >>, b |-> << -74006, -3 >> ],
       [ op |-> "get_weather_forecast", a |-> << 515074, -4 >>, b |-> << -1278, -4 >> ] >>

\* One call of example_usage, with the answers the service gives.
ExampleCall(c, listing, reply) ==
    CASE c.op = "list_available_tools" -> list_available_tools(listing)
      [] c.op = "query_weather" -> query_weather(c.a, listing, reply)
      [] c.op = "get_weather_alerts" -> get_weather_alerts(c.a, reply)
      [] OTHER -> get_weather_forecast(c.a, c.b, reply)

\* The lines the operator types.
NumberTokens ==
    { << "4", "0", ".", "7", "1", "2", "8" >>,
      << "-", "7", "4", ".", "0", "0", "6" >>,
      << "a", "b", "c" >> }

Lines ==
    { Word_forecast \o << " " >> \o x \o << " " >> \o y : x \in NumberTokens, y \in NumberTokens }
        \cup { Word_quit, << " " >> \o upper(Word_quit) \o << " " >>,
               Word_tools, Word_help,
               Word_forecast, Word_forecast \o << " ", "1" >>,
               upper(Word_forecast) \o << " ", "1", "e", "1", " ", "2", " ", "3" >>,
               Word_alerts, Word_alerts \o << " ", "C", "A" >>,
               Word_alerts \o << " ", "C", "A", " ", "T", "X" >>,
               << >>, << " ", " " >>,
               << "B", "e", "i", "j", "i", "n", "g" >>,
               << "C", "A" >>,
               << "A", "t", "l", "a", "n", "t", "i", "s" >> }

\* What input() gives: a line, or the exception it raises on an
\* interruption or at the end of the input.
Reads ==
    { [ exc |-> "none", line |-> l ] : l \in Lines }
        \cup { [ exc |-> e, line |-> << >> ] : e \in { "KeyboardInterrupt", "EOFError" } }

\* What the loop makes of each of them.
Parsed == [ read \in Reads |-> Parse(read) ]

\* The answers that matter to a pass of the loop: those of the requests
\* its branch sends.
ListingsFor(branch) ==
    IF branch \in { "tools", "query" }
    THEN ListingOutcomes({ Fault } \cup Interrupts)
    ELSE { ListingRaises(Fault) }

RepliesFor(branch) ==
    IF branch \in { "forecast", "alerts", "query" }
    THEN ReplyOutcomes({ Fault } \cup Interrupts)
    ELSE { ReplyRaises(Fault) }

ShellInit ==
    /\ session = NoSession
    /\ stdio = NoSession
    /\ exit_stack = << >>
    /\ result = NoOutcome
    /\ lifecycle = "new"
    /\ asked = NoQuestion
    /\ \E entry \in Entries :
          prog = [ entry |-> entry,
                   pc |-> IF entry = "interactive_chat" THEN "chat" ELSE "connect",
                   at |-> 0, cleanups |-> 0, pending |-> "none", left |-> "none" ]
    /\ shell = NoLine

\* `await client.connect_to_weather_server()` in the entry point.
EntryConnect ==
    /\ prog.pc = "connect"
    /\ \/ \E tools \in ToolLists : connect_to_weather_server("none", "none", tools)
       \/ \E step \in ConnectSteps, exc \in { Fault } \cup Interrupts :
             connect_to_weather_server(step, exc, << >>)
    /\ prog' = [ prog EXCEPT !.pc = AfterConnect(prog.entry, result'),
                             !.at = IF AfterConnect(prog.entry, result') = "steps" THEN 1 ELSE 0,
                             !.pending = EntryHandler(prog.entry, result'.raised),
                             !.left = IF AfterConnect(prog.entry, result') \in { "steps", "chat" }
                                      THEN "none"
                                      ELSE IF result'.raised = "none" THEN "connect_failed"
                                      ELSE result'.raised ]
    /\ UNCHANGED << asked, shell >>

\* One pass of the loop of interactive_chat.
ChatPass ==
    /\ prog.pc = "chat"
    /\ \E read \in Reads, listing \in ListingOutcomes({ Fault } \cup Interrupts),
          reply \in ReplyOutcomes({ Fault } \cup Interrupts) :
         /\ listing \in ListingsFor(Parsed[read].branch)
         /\ reply \in RepliesFor(Parsed[read].branch)
         /\ LET p == Parsed[read]
                pass == interactive_chat(p, listing, reply)
                raised == pass.shell.raised
            IN  /\ result' = pass.outcome
                /\ shell' = pass.shell
                /\ prog' = IF pass.shell.after = "continue"
                           THEN prog
                           ELSE [ prog EXCEPT
                                    !.pc = Leave(prog.entry),
                                    !.pending = IF pass.shell.after = "propagate"
                                                THEN EntryHandler(prog.entry, raised)
                                                ELSE "none",
                                    !.left = IF pass.shell.branch = "quit"
                                             THEN "quit" ELSE raised ]
    /\ UNCHANGED << session, stdio, exit_stack, lifecycle, asked >>

\* One call of example_usage; after the last, the body ends.
ExampleStep ==
    /\ prog.pc = "steps"
    /\ \E listing \in ListingOutcomes({ Fault } \cup Interrupts),
          reply \in ReplyOutcomes({ Fault } \cup Interrupts) :
         LET outcome == ExampleCall(ExampleCalls[prog.at], listing, reply)
         IN  /\ result' = outcome
             /\ prog' = IF outcome.raised # "none"
                        THEN [ prog EXCEPT !.pc = Leave(prog.entry),
                                           !.pending = EntryHandler(prog.entry, outcome.raised),
                                           !.left = outcome.raised ]
                        ELSE IF prog.at = Len(ExampleCalls)
                        THEN [ prog EXCEPT !.pc = Leave(prog.entry), !.left = "completed" ]
                        ELSE [ prog EXCEPT !.at = prog.at + 1 ]
    /\ UNCHANGED << session, stdio, exit_stack, lifecycle, asked, shell >>

\* `finally: await client.cleanup()`; what cleanup raises replaces the
\* exception that was leaving.
Release ==
    /\ prog.pc = "finally"
    /\ \E exc \in { "none", Fault } :
          /\ cleanup(exc)
          /\ prog' = [ prog EXCEPT !.pc = "done",
                                   !.cleanups = prog.cleanups + 1,
                                   !.pending = IF exc = "none" THEN prog.pending ELSE exc ]
    /\ UNCHANGED << asked, shell >>

ShellNext == EntryConnect \/ ChatPass \/ ExampleStep \/ Release

\* The interpreter goes on to the finally clause once the body is left.
ShellSpec == ShellInit /\ [][ShellNext]_vars /\ WF_vars(Release)

(* ------------------------------------------------------------------ *)
(* Properties                                                           *)
(* ------------------------------------------------------------------ *)

\* The last operation was a query operation that failed fast: it raised
\* the precondition error and sent nothing to the service.
FailedFast ==
    /\ result.raised = "RuntimeError"
    /\ result.value = "None"
    /\ result.calls = << >>
    /\ result.listings = 0

\* C1: after connect returned failure, whatever step failed, every query
\* operation fails with the precondition error and sends no request, until
\* a later connect succeeds.
C1_FailedConnectLeavesRouterUnusable ==
    (lifecycle = "connect_failed" /\ result.op \in QueryOps) => FailedFast

\* C2: after cleanup has run on a connected router, every query operation
\* fails fast with the precondition error and does not use the released
\* session, so that no query reaches the service once the router is
\* released.  (The queries that follow a failed connect are those of C1.)
C2_ReleasedRouterFailsFast ==
    (lifecycle = "released" /\ result.op \in QueryOps) => (FailedFast /\ ~result.stale)

\* C3: on a router on which connect was never called, every query
\* operation raises the precondition error to its caller, returns no text,
\* and sends no request and opens no connection before it does.
C3_NeverConnectedFailsFast ==
    (lifecycle = "new" /\ result.op \in QueryOps) =>
        /\ FailedFast
        /\ result.inside = "none"
        /\ session = NoSession
        /\ exit_stack = << >>

C3_Witness ==
    /\ lifecycle = "new"
    /\ result.op = "get_weather_forecast"
    /\ result.raised = "RuntimeError"

\* C5: at most one subprocess transport is open and held by the router at
\* any time, and cleanup leaves none open.
C5_AtMostOneTransport ==
    /\ Cardinality(OpenTransports) <= 1
    /\ result.op = "cleanup" => OpenTransports = { }

\* C6: a fault raised inside connect or a query operation is turned into
\* the operation's failure value (False, an error text, an empty list) and
\* does not reach the caller; the only exception these operations raise is
\* the precondition error, and they raise it only without a session.
C6_FaultsBecomeFailureValues ==
    result.op \in QueryOps \cup { "connect_to_weather_server" } =>
        /\ result.raised \in { "none", "RuntimeError" }
        /\ result.raised = "RuntimeError" => (session = NoSession /\ result.inside = "none")
        /\ result.inside = Fault =>
              /\ result.raised = "none"
              /\ result.value =
                    CASE result.op = "connect_to_weather_server" -> "False"
                      [] result.op = "list_available_tools" -> "empty"
                      [] OTHER -> "error"

C6_Witness ==
    /\ lifecycle = "connect_ok"
    /\ result.op = "query_weather"
    /\ result.inside = Fault
    /\ Len(result.calls) = 1
    /\ result.value = "error"

\* The vocabulary of the classification rules, as the specification words
\* them.
TwoLetterAlphabetic(text) ==
    Len(text) = 2 /\ \A i \in DOMAIN text : text[i] \in UpperLetters \cup LowerLetters

IsTableKey(text) == \E i \in DOMAIN location_coords : location_coords[i].key = text

KeyEntry(text) ==
    location_coords[CHOOSE i \in DOMAIN location_coords : location_coords[i].key = text]

Advertised(name) ==
    asked.listing.exc = "none" /\ \E i \in DOMAIN asked.listing.tools : asked.listing.tools[i] = name

\* The last operation was query_weather and the service listed its tools.
Classified == result.op = "query_weather" /\ asked.listing.exc = "none"

ForecastCall(key) ==
    [ name |-> "get_forecast",
      args |-> [ latitude |-> KeyEntry(key).lat, longitude |-> KeyEntry(key).lon ] ]

AlertCall(code) == [ name |-> "get_alerts", args |-> [ state |-> code ] ]

\* The unrecognized result: the guidance with the text as it was given, the
\* city names and the advertised tools; nothing was invoked.
Unrecognized ==
    /\ result.raised = "none"
    /\ result.value = "guidance"
    /\ result.text = << asked.location, CityNames, asked.listing.tools >>
    /\ result.calls = << >>

\* C7, as stated: a location that matches a table key without regard to
\* case once the white space around it is removed, with the forecast tool
\* advertised, has get_forecast invoked exactly once with the coordinates
\* of that key.
C7_TrimmedKeyGivesForecast ==
    (Classified /\ IsTableKey(lower(strip(asked.location))) /\ Advertised("get_forecast")) =>
        result.calls = << ForecastCall(lower(strip(asked.location))) >>

\* C7, amended: a location whose lower case is a table key as it stands
\* (query_weather removes no white space), with the forecast tool
\* advertised, has get_forecast invoked exactly once with the coordinates
\* of that key, and the guidance is not returned.
C7_KeyGivesForecast ==
    (Classified /\ IsTableKey(lower(asked.location)) /\ Advertised("get_forecast")) =>
        /\ result.calls = << ForecastCall(lower(asked.location)) >>
        /\ result.value # "guidance"
        /\ result.listings = 1

C7_Witness ==
    /\ Classified
    /\ asked.location = << "N", "e", "w", " ", "Y", "o", "r", "k" >>
    /\ result.value = "content"
    /\ result.calls = << [ name |-> "get_forecast",
                           args |-> [ latitude |-> << 407128, -4 >>,
                                      longitude |-> << -74006, -3 >> ] ] >>

\* The locations the two rules do not take: those that are no two-letter
\* code with the alert tool advertised and whose lower case is no table key
\* with the forecast tool advertised.
TakenByNoRule ==
    /\ Classified
    /\ ~(TwoLetterAlphabetic(asked.location) /\ Advertised("get_alerts"))
    /\ ~(IsTableKey(lower(asked.location)) /\ Advertised("get_forecast"))

\* C8, as stated: a location that neither rule takes gives the guidance,
\* whatever the advertised set, the empty one included.
C8_NoRuleGivesGuidance == TakenByNoRule => Unrecognized

\* C8, amended: a location that neither rule takes gives the guidance with
\* the text unchanged, the city names and the advertised tools when the
\* advertised set is not empty, and the fixed text "No tools available on
\* the server." when it is empty; in both cases nothing is invoked.
C8_NoRuleGivesGuidanceOrNoTools ==
    TakenByNoRule =>
        IF asked.listing.tools = << >>
        THEN result.raised = "none" /\ result.value = "no_tools" /\ result.calls = << >>
        ELSE Unrecognized

C8_Witness ==
    /\ Classified
    /\ asked.location = << "A", "t", "l", "a", "n", "t", "i", "s" >>
    /\ asked.listing.tools = << "get_alerts", "get_forecast" >>
    /\ result.value = "guidance"
    /\ result.text[1] = << "A", "t", "l", "a", "n", "t", "i", "s" >>

\* C9, as stated: a two-letter alphabetic location has get_alerts invoked
\* exactly once with its upper case when the alert tool is advertised, and
\* falls through to unrecognized when it is not.
C9_StateCodeGivesAlerts ==
    (Classified /\ TwoLetterAlphabetic(asked.location)) =>
        IF Advertised("get_alerts")
        THEN result.calls = << AlertCall(upper(asked.location)) >>
        ELSE Unrecognized

\* C9, amended: a two-letter alphabetic location has get_alerts invoked
\* exactly once with its upper case, and get_forecast not at all, when the
\* alert tool is advertised; when it is not, nothing is invoked and the
\* result is the guidance, or, the advertised set being empty, the fixed
\* text "No tools available on the server.".
C9_StateCodeGivesAlertsOrNoTools ==
    (Classified /\ TwoLetterAlphabetic(asked.location)) =>
        IF Advertised("get_alerts")
        THEN /\ result.calls = << AlertCall(upper(asked.location)) >>
             /\ result.value # "guidance"
        ELSE IF asked.listing.tools = << >>
        THEN result.raised = "none" /\ result.value = "no_tools" /\ result.calls = << >>
        ELSE Unrecognized

C9_Witness ==
    /\ Classified
    /\ asked.location = << "C", "a" >>
    /\ result.value = "content"
    /\ result.calls = << [ name |-> "get_alerts", args |-> [ state |-> << "C", "A" >> ] ] >>

\* The entry points of the two programs.
EntryPoints == { "main", "interactive_mode", "example_usage" }

\* C4: in every run of an entry point cleanup is awaited once the body is
\* left, whichever way it is left (completion, quit, interruption, connect
\* failure, a fault), and exactly once; after a connect failure the loop of
\* the shell is never entered; and the router does nothing after cleanup.
C4_ReleasedExactlyOnce ==
    /\ [](prog.entry \in EntryPoints =>
            /\ prog.cleanups <= 1
            /\ prog.pc = "done" => prog.cleanups = 1
            /\ prog.cleanups = 1 => (prog.pc = "done" /\ result.op = "cleanup")
            /\ prog.left # "none" => prog.pc \in { "finally", "done" }
            /\ lifecycle = "connect_failed" =>
                  (shell = NoLine /\ prog.pc \in { "finally", "done" }))
    /\ [][prog.cleanups = 1 => result' = result]_vars
    /\ (prog.entry \in EntryPoints /\ prog.left # "none") ~> (prog.cleanups = 1)

C4_Witness ==
    /\ prog.entry = "main"
    /\ prog.pc = "done"
    /\ prog.cleanups = 1
    /\ prog.left = "CancelledError"
    /\ prog.pending = "CancelledError"
    /\ shell.invoked = 1

\* The line of the last pass is the quit command.
QuitLine == shell.exc = "none" /\ lower(strip(shell.line)) = Word_quit

\* The last pass was interrupted: at input(), or in the operation awaited.
Interrupted == shell.raised \in Interrupts

NotANumber == << "a", "b", "c" >>

\* The lines of the last pass that the loop turns down itself.
TurnedDown ==
    /\ shell.exc = "none"
    /\ \/ \E x \in NumberTokens, y \in NumberTokens :
             /\ NotANumber \in { x, y }
             /\ shell.line = Word_forecast \o << " " >> \o x \o << " " >> \o y
       \/ shell.line = Word_forecast \o << " ", "1" >>
       \/ shell.line = upper(Word_forecast) \o << " ", "1", "e", "1", " ", "2", " ", "3" >>
       \/ shell.line = Word_alerts \o << " ", "C", "A", " ", "T", "X" >>
       \/ shell.line \in { << >>, << " ", " " >> }

====
